---- MODULE Spec2Model ----
(***************************************************************************)
(* DiffWithCommand (src/src/commands/diffWith.ts): the request built by    *)
(* getMarkdownCommandArgs and the asynchronous execute handler, with the   *)
(* calls it makes to Container.git, to the diff viewer, to Logger and to   *)
(* Messages.  One invocation of execute is followed from its arguments to  *)
(* its return; every await of the handler is a state in between.           *)
(***************************************************************************)
EXTENDS Integers, Sequences, FiniteSets, TLC

VARIABLES
    pc,          \* position of the handler: idle, resolveL, resolveR, status, uris, viewer, done
    req,         \* the arguments execute was called with (never changed)
    args,        \* the handler's own copy of the arguments (lines 92-97), mutated in place
    lhsSha,      \* local lhsSha
    rhsSha,      \* local rhsSha
    returned,    \* what each collaborator call returned
    lhs,         \* local lhs: the left content reference
    rhs,         \* local rhs: the right content reference
    suffix,      \* locals lhsSuffix and rhsSuffix
    title,       \* local title
    calls,       \* every collaborator call: none, inflight, ok, failed
    callArgs,    \* for each collaborator, the arguments of the calls made to it, in order
    logged,      \* number of Logger.error calls
    notified,    \* number of Messages.showGenericErrorMessage calls
    result       \* what execute returned

vars == <<pc, req, args, lhsSha, rhsSha, returned, lhs, rhs, suffix, title,
          calls, callArgs, logged, notified, result>>

----------------------------------------------------------------------------
(* Values *)

\* Largest cursor line a request carries.
MaxLine == 1

\* JavaScript's undefined, for the fields that hold strings.
Undef == "<undefined>"
\* A local that has not been assigned yet.
None == "<none>"
\* An undefined Uri; a defined one is the sequence of the segments of its fsPath.
NoUri == <<>>

\* The revision markers. The empty string is the working tree.
WorkingSha == ""
UncommittedSha == "0000000000000000000000000000000000000000"
DeletedOrMissingSha == "0000000000000000000000000000000000000000-"
HeadRef == "HEAD"
ShaA == "4f2a9c1e7b3d5a60"
ShaB == "9e8d7c6b5a4f3021"

ConcreteShas == {ShaA, ShaB}
Markers == {WorkingSha, UncommittedSha, DeletedOrMissingSha, HeadRef} \cup ConcreteShas

RepoPath == "/repo"
Uris == {<<"repo", "src", "a.ts">>, <<"repo", "old", "b.ts">>}
Titles == {Undef, "mine"}
ViewColumns == {Undef, "Beside"}
Lines == {<<>>} \cup {<<n>> : n \in 0..MaxLine}

\* A side of DiffWithCommandArgs; the one that is left out is undefined.
NoSide == [given |-> FALSE, sha |-> Undef, uri |-> NoUri, title |-> Undef]
Sides == {[given |-> TRUE, sha |-> s, uri |-> u, title |-> t] :
            s \in Markers, u \in Uris, t \in Titles}

Requests == [repoPath : {Undef, RepoPath},
             lhs : Sides \cup {NoSide},
             rhs : Sides \cup {NoSide},
             line : Lines,
             viewColumn : ViewColumns,
             origin : {"args"}]

CallIds == {"resolveL", "resolveR", "status", "uriL", "uriR", "viewer"}

\* A GitCommit as getMarkdownCommandArgs reads it.
NoCommit == [given |-> FALSE, repoPath |-> Undef, sha |-> Undef, uri |-> NoUri,
             previousSha |-> Undef, previousUri |-> NoUri, isUncommitted |-> FALSE]
Commits == {[given |-> TRUE, repoPath |-> RepoPath, sha |-> s, uri |-> u,
             previousSha |-> p, previousUri |-> pu, isUncommitted |-> (s = UncommittedSha)] :
              s \in ConcreteShas \cup {UncommittedSha}, u \in Uris,
              p \in ConcreteShas \cup {Undef}, pu \in Uris}

----------------------------------------------------------------------------
(* Strings and paths *)

RECURSIVE Join(_, _)
Join(segs, sep) ==
    IF segs = <<>> THEN ""
    ELSE IF Len(segs) = 1 THEN segs[1]
    ELSE segs[1] \o sep \o Join(Tail(segs), sep)

\* uri.fsPath
FsPath(uri) == "/" \o Join(uri, "/")

\* paths.basename(uri.fsPath)
Basename(uri) == uri[Len(uri)]

\* JavaScript truthiness of a string or undefined.
Truthy(s) == s # Undef /\ s # ""

----------------------------------------------------------------------------
(* GitService and GitUri, as execute uses them *)

IsUncommitted(sha) == sha = UncommittedSha

ShortForm(sha) ==
    CASE sha = ShaA -> "4f2a9c1"
      [] sha = ShaB -> "9e8d7c6"
      [] sha = DeletedOrMissingSha -> "0000000"
      [] OTHER -> sha

DefaultUncommittedLabel == "Working"

\* GitService.shortenSha(sha, { uncommitted: label })
ShortenSha(sha, label) ==
    IF sha = Undef THEN Undef
    ELSE IF sha = "" THEN ""
    ELSE IF IsUncommitted(sha) THEN label
    ELSE ShortForm(sha)

\* GitUri.toRevisionUri(sha, fileName, repoPath)
ToRevisionUri(sha, fsPath, repoPath) ==
    "gitlens://" \o ShortForm(sha) \o fsPath \o "?repo=" \o repoPath \o "&ref=" \o sha

\* What resolveReference(repoPath, ref, uri) can return.
ResolveResults(ref) ==
    IF ref = Undef THEN {Undef}
    ELSE IF ref = DeletedOrMissingSha THEN {DeletedOrMissingSha}
    ELSE IF ref = WorkingSha \/ IsUncommitted(ref) THEN {ref, DeletedOrMissingSha}
    ELSE IF ref \in ConcreteShas THEN {ref, DeletedOrMissingSha}
    ELSE ConcreteShas \cup {DeletedOrMissingSha}

\* What getFileStatusForCommit can return: undefined or the status letter.
StatusResults == {Undef, "A", "D", "M"}

\* What getVersionedUri(repoPath, fileName, sha) can return.
VersionedUriResults(repoPath, fsPath, sha) ==
    IF sha = DeletedOrMissingSha THEN {Undef}
    ELSE IF sha = WorkingSha THEN {Undef, "file://" \o fsPath}
    ELSE {Undef, ToRevisionUri(sha, fsPath, repoPath)}

----------------------------------------------------------------------------
(* getMarkdownCommandArgs: the arguments it hands on for serialisation *)

CommitSide(sha, uri) == [given |-> TRUE, sha |-> sha, uri |-> uri, title |-> Undef]

GetMarkdownCommandArgs(commit1, commit2) ==
    IF ~commit2.given
    THEN IF commit1.isUncommitted
         THEN [repoPath |-> commit1.repoPath,
               lhs |-> CommitSide(HeadRef, commit1.uri),
               rhs |-> CommitSide(WorkingSha, commit1.uri),
               line |-> <<>>, viewColumn |-> Undef, origin |-> "uncommitted"]
         ELSE [repoPath |-> commit1.repoPath,
               lhs |-> CommitSide(IF commit1.previousSha # Undef
                                  THEN commit1.previousSha
                                  ELSE DeletedOrMissingSha,
                                  commit1.previousUri),
               rhs |-> CommitSide(commit1.sha, commit1.uri),
               line |-> <<>>, viewColumn |-> Undef, origin |-> "commit"]
    ELSE [repoPath |-> commit1.repoPath,
          lhs |-> CommitSide(commit1.sha, commit1.uri),
          rhs |-> CommitSide(commit2.sha, commit2.uri),
          line |-> <<>>, viewColumn |-> Undef, origin |-> "commits"]

----------------------------------------------------------------------------
(* execute: its synchronous pieces *)

\* { ...side }: spreading undefined gives an object with no fields
SpreadSide(side) ==
    [defined |-> TRUE, sha |-> side.sha, uri |-> side.uri, title |-> side.title]

\* lines 92-97
SpreadArgs(r) ==
    [repoPath |-> r.repoPath,
     lhs |-> SpreadSide(r.lhs),
     rhs |-> SpreadSide(r.rhs),
     line |-> r.line,
     showOptions |-> [viewColumn |-> r.viewColumn, selection |-> <<>>]]

\* line 98
NotExecutable(a) ==
    a.repoPath = Undef \/ ~a.lhs.defined \/ ~a.rhs.defined

\* lines 109-111 with the test dropped: lhsSha keeps the marker it was given
LhsShaKept(oldLhsSha, resolvedLhs) == oldLhsSha

\* lines 109-111
LhsShaAfterResolve(oldLhsSha, resolvedLhs) ==
    IF resolvedLhs # DeletedOrMissingSha THEN resolvedLhs ELSE oldLhsSha

\* line 113 without the comparison with deletedOrMissingSha
NeedsStatusTruthy(sha) == Truthy(sha)

\* line 113
NeedsStatus(sha) ==
    Truthy(sha) /\ sha # DeletedOrMissingSha

\* lines 120-125 with rhsSha assigned before the test instead of in its else branch
RhsAfterStatusResolved(st, argsRhsSha, oldRhsSha) ==
    IF st # Undef /\ st = "D"
    THEN [sha |-> DeletedOrMissingSha, rhsSha |-> argsRhsSha]
    ELSE [sha |-> argsRhsSha, rhsSha |-> argsRhsSha]

\* lines 120-125: args.rhs.sha and rhsSha after the status lookup
RhsAfterStatus(st, argsRhsSha, oldRhsSha) ==
    IF st # Undef /\ st = "D"
    THEN [sha |-> DeletedOrMissingSha, rhsSha |-> oldRhsSha]
    ELSE [sha |-> argsRhsSha, rhsSha |-> argsRhsSha]

\* x || ''
OrEmpty(x) == IF Truthy(x) THEN x ELSE ""

\* lines 133-147 without the else-if of line 145
RhsSuffixNoAdded(rSha, argsRhsSha, l, r) ==
    LET base == OrEmpty(ShortenSha(rSha, "Working Tree")) IN
    IF r = Undef
    THEN IF IsUncommitted(argsRhsSha) THEN "deleted"
         ELSE IF base = "" /\ argsRhsSha = DeletedOrMissingSha THEN "not in Working Tree"
         ELSE "deleted in " \o base
    ELSE base

\* lines 133-147
RhsSuffix(rSha, argsRhsSha, l, r) ==
    LET base == OrEmpty(ShortenSha(rSha, "Working Tree")) IN
    IF r = Undef
    THEN IF IsUncommitted(argsRhsSha) THEN "deleted"
         ELSE IF base = "" /\ argsRhsSha = DeletedOrMissingSha THEN "not in Working Tree"
         ELSE "deleted in " \o base
    ELSE IF l = Undef THEN "added in " \o base
    ELSE base

\* lines 133-158 without the assignment of line 153
SuffixesKeepRhs(lSha, rSha, argsLhsSha, argsRhsSha, l, r) ==
    LET rhs0 == RhsSuffix(rSha, argsRhsSha, l, r)
        lhs0 == IF argsLhsSha # DeletedOrMissingSha
                THEN OrEmpty(ShortenSha(lSha, DefaultUncommittedLabel))
                ELSE ""
    IN  IF l = Undef /\ argsRhsSha = ""
        THEN IF r # Undef
             THEN [lhs |-> "not in " \o lhs0, rhs |-> rhs0]
             ELSE [lhs |-> "deleted in " \o lhs0 \o ")", rhs |-> rhs0]
        ELSE [lhs |-> lhs0, rhs |-> rhs0]

\* lines 133-158: lhsSuffix and rhsSuffix
Suffixes(lSha, rSha, argsLhsSha, argsRhsSha, l, r) ==
    LET rhs0 == RhsSuffix(rSha, argsRhsSha, l, r)
        lhs0 == IF argsLhsSha # DeletedOrMissingSha
                THEN OrEmpty(ShortenSha(lSha, DefaultUncommittedLabel))
                ELSE ""
    IN  IF l = Undef /\ argsRhsSha = ""
        THEN IF r # Undef
             THEN [lhs |-> "not in " \o lhs0, rhs |-> ""]
             ELSE [lhs |-> "deleted in " \o lhs0 \o ")", rhs |-> rhs0]
        ELSE [lhs |-> lhs0, rhs |-> rhs0]

\* `${basename}${suffix ? ` (${suffix})` : ''}`
Label(uri, sfx) ==
    Basename(uri) \o (IF sfx # "" THEN " (" \o sfx \o ")" ELSE "")

\* lines 160-162 with the left label derived like the right one (lines 163-165)
LhsTitleAlways(side, l, lhsSuffix) ==
    IF side.title = Undef THEN Label(side.uri, lhsSuffix) ELSE side.title

\* lines 160-162
LhsTitle(side, l, lhsSuffix) ==
    IF side.title = Undef /\ (l # Undef \/ lhsSuffix # "")
    THEN Label(side.uri, lhsSuffix)
    ELSE side.title

\* lines 163-165
RhsTitle(side, rhsSuffix) ==
    IF side.title = Undef THEN Label(side.uri, rhsSuffix) ELSE side.title

ArrowLeftRightLong == "<->"

\* lines 167-170
Title(lhsTitle, rhsTitle) ==
    IF lhsTitle # Undef /\ rhsTitle # Undef
    THEN lhsTitle \o " " \o ArrowLeftRightLong \o " " \o rhsTitle
    ELSE IF Truthy(lhsTitle) THEN lhsTitle ELSE rhsTitle

\* lines 172-182
ShowOptions(so, line) ==
    [viewColumn |-> IF so.viewColumn = Undef THEN "Active" ELSE so.viewColumn,
     selection |-> IF line # <<>> /\ line[1] # 0
                   THEN <<line[1], 0, line[1], 0>>
                   ELSE so.selection]

\* lines 186-188 with the placeholder built from the other side's path
ViewerLeftOtherPath(a, l) ==
    IF l = Undef
    THEN ToRevisionUri(DeletedOrMissingSha, FsPath(a.rhs.uri), a.repoPath)
    ELSE l

\* lines 186-188
ViewerLeft(a, l) ==
    IF l = Undef
    THEN ToRevisionUri(DeletedOrMissingSha, FsPath(a.lhs.uri), a.repoPath)
    ELSE l

\* lines 189-191
ViewerRight(a, r) ==
    IF r = Undef
    THEN ToRevisionUri(DeletedOrMissingSha, FsPath(a.rhs.uri), a.repoPath)
    ELSE r

----------------------------------------------------------------------------
(* execute: the handler, one action per step between two awaits *)

Init ==
    /\ pc = "idle"
    /\ req = [repoPath |-> Undef, lhs |-> NoSide, rhs |-> NoSide, line |-> <<>>,
              viewColumn |-> Undef, origin |-> "args"]
    /\ args = SpreadArgs(req)
    /\ lhsSha = None
    /\ rhsSha = None
    /\ returned = [c \in CallIds |-> None]
    /\ lhs = None
    /\ rhs = None
    /\ suffix = [lhs |-> None, rhs |-> None]
    /\ title = None
    /\ calls = [c \in CallIds |-> "none"]
    /\ callArgs = [c \in CallIds |-> <<>>]
    /\ logged = 0
    /\ notified = 0
    /\ result = None

\* lines 196-199: the catch block
Catch ==
    /\ logged' = logged + 1
    /\ notified' = notified + 1
    /\ result' = "showGenericErrorMessage"
    /\ pc' = "done"

\* lines 91-105: execute is called with r and runs up to its first await
Begin(r) ==
    /\ req' = r
    /\ args' = SpreadArgs(r)
    /\ UNCHANGED <<returned, lhs, rhs, suffix, title>>
    /\ IF NotExecutable(args')
       THEN /\ result' = Undef
            /\ pc' = "done"
            /\ UNCHANGED <<lhsSha, rhsSha, calls, callArgs, logged, notified>>
       ELSE /\ lhsSha' = args'.lhs.sha
            /\ rhsSha' = args'.rhs.sha
            /\ calls' = [calls EXCEPT !["resolveL"] = "inflight"]
            /\ callArgs' = [callArgs EXCEPT
                              !["resolveL"] = Append(@, <<args'.repoPath, args'.lhs.sha, args'.lhs.uri>>)]
            /\ pc' = "resolveL"
            /\ UNCHANGED <<logged, notified, result>>

\* execute(editor, uri, args) with arguments a caller wrote
Execute ==
    /\ pc = "idle"
    /\ \E r \in Requests : Begin(r)

\* execute with arguments getMarkdownCommandArgs built from one or two commits
ExecuteFromCommits ==
    /\ pc = "idle"
    /\ \E c1 \in Commits, c2 \in Commits \cup {NoCommit} :
          Begin(GetMarkdownCommandArgs(c1, c2))

\* lines 105-106: the first resolveReference returns, and only then the second is called
ResolveLReturns ==
    /\ pc = "resolveL"
    /\ \E v \in ResolveResults(args.lhs.sha) :
          returned' = [returned EXCEPT !["resolveL"] = v]
    /\ calls' = [calls EXCEPT !["resolveL"] = "ok", !["resolveR"] = "inflight"]
    /\ callArgs' = [callArgs EXCEPT
                      !["resolveR"] = Append(@, <<args.repoPath, args.rhs.sha, args.rhs.uri>>)]
    /\ pc' = "resolveR"
    /\ UNCHANGED <<req, args, lhsSha, rhsSha, lhs, rhs, suffix, title, logged, notified, result>>

\* lines 105-106: a resolveReference call throws
ResolveFails ==
    /\ pc \in {"resolveL", "resolveR"}
    /\ calls' = [calls EXCEPT ![pc] = "failed"]
    /\ Catch
    /\ UNCHANGED <<req, args, lhsSha, rhsSha, returned, lhs, rhs, suffix, title, callArgs>>

\* lines 128-131: both getVersionedUri calls are made, one after the other, before the
\* await; reading fsPath of an undefined uri throws
BeginUris(a, c, ca) ==
    IF a.lhs.uri = NoUri
    THEN /\ calls' = c
         /\ callArgs' = ca
         /\ Catch
    ELSE IF a.rhs.uri = NoUri
    THEN /\ calls' = [c EXCEPT !["uriL"] = "inflight"]
         /\ callArgs' = [ca EXCEPT !["uriL"] = Append(@, <<a.repoPath, FsPath(a.lhs.uri), a.lhs.sha>>)]
         /\ Catch
    ELSE /\ calls' = [c EXCEPT !["uriL"] = "inflight", !["uriR"] = "inflight"]
         /\ callArgs' = [ca EXCEPT
                           !["uriL"] = Append(@, <<a.repoPath, FsPath(a.lhs.uri), a.lhs.sha>>),
                           !["uriR"] = Append(@, <<a.repoPath, FsPath(a.rhs.uri), a.rhs.sha>>)]
         /\ pc' = "uris"
         /\ UNCHANGED <<logged, notified, result>>

\* lines 104-131: the second resolveReference returns; both revisions are assigned, and
\* the handler goes on to the status lookup or, when that is skipped, to the content lookups
ResolveRReturns ==
    /\ pc = "resolveR"
    /\ \E v \in ResolveResults(args.rhs.sha) :
          /\ returned' = [returned EXCEPT !["resolveR"] = v]
          /\ args' = [args EXCEPT !.lhs.sha = returned["resolveL"], !.rhs.sha = v]
    /\ lhsSha' = LhsShaAfterResolve(lhsSha, args'.lhs.sha)
    /\ UNCHANGED <<req, rhsSha, lhs, rhs, suffix, title>>
    /\ LET c == [calls EXCEPT !["resolveR"] = "ok"] IN
       IF NeedsStatus(args'.rhs.sha)
       THEN IF args'.rhs.uri = NoUri
            THEN /\ calls' = c
                 /\ callArgs' = callArgs
                 /\ Catch
            ELSE /\ calls' = [c EXCEPT !["status"] = "inflight"]
                 /\ callArgs' = [callArgs EXCEPT
                      !["status"] = Append(@, <<args'.repoPath, FsPath(args'.rhs.uri), args'.rhs.sha>>)]
                 /\ pc' = "status"
                 /\ UNCHANGED <<logged, notified, result>>
       ELSE BeginUris(args', c, callArgs)

\* lines 115-131: getFileStatusForCommit returns
StatusReturns ==
    /\ pc = "status"
    /\ \E st \in StatusResults :
          /\ returned' = [returned EXCEPT !["status"] = st]
          /\ LET after == RhsAfterStatus(st, args.rhs.sha, rhsSha) IN
                /\ args' = [args EXCEPT !.rhs.sha = after.sha]
                /\ rhsSha' = after.rhsSha
    /\ BeginUris(args', [calls EXCEPT !["status"] = "ok"], callArgs)
    /\ UNCHANGED <<req, lhsSha, lhs, rhs, suffix, title>>

\* lines 115-119: getFileStatusForCommit throws
StatusFails ==
    /\ pc = "status"
    /\ calls' = [calls EXCEPT !["status"] = "failed"]
    /\ Catch
    /\ UNCHANGED <<req, args, lhsSha, rhsSha, returned, lhs, rhs, suffix, title, callArgs>>

\* lines 133-194: with both content references at hand, the labels, the title and the
\* display options are derived and the diff viewer is called
OpenDiff(l, r, c) ==
    LET sfx == Suffixes(lhsSha, rhsSha, args.lhs.sha, args.rhs.sha, l, r)
        lt == LhsTitle(args.lhs, l, sfx.lhs)
        rt == RhsTitle(args.rhs, sfx.rhs)
        so == ShowOptions(args.showOptions, args.line)
    IN  /\ lhs' = l
        /\ rhs' = r
        /\ suffix' = sfx
        /\ args' = [args EXCEPT !.lhs.title = lt, !.rhs.title = rt, !.showOptions = so]
        /\ title' = Title(lt, rt)
        /\ calls' = [c EXCEPT !["viewer"] = "inflight"]
        /\ callArgs' = [callArgs EXCEPT
                          !["viewer"] = Append(@, <<ViewerLeft(args, l), ViewerRight(args, r), title', so>>)]
        /\ pc' = "viewer"

Other(id) == IF id = "uriL" THEN "uriR" ELSE "uriL"

\* lines 128-131 with the handler going on once both calls have settled, whatever
\* their outcome
UriReturnsSettled(id) ==
    /\ calls[id] = "inflight"
    /\ LET side == IF id = "uriL" THEN args.lhs ELSE args.rhs IN
       \E v \in VersionedUriResults(args.repoPath, FsPath(side.uri), side.sha) :
          /\ returned' = [returned EXCEPT ![id] = v]
          /\ IF calls[Other(id)] \in {"ok", "failed"}
             THEN LET got(c) == IF c = id THEN v
                                ELSE IF calls[c] = "ok" THEN returned[c] ELSE Undef IN
                  OpenDiff(got("uriL"), got("uriR"), [calls EXCEPT ![id] = "ok"])
             ELSE /\ calls' = [calls EXCEPT ![id] = "ok"]
                  /\ UNCHANGED <<pc, args, lhs, rhs, suffix, title, callArgs>>
    /\ UNCHANGED <<req, lhsSha, rhsSha, logged, notified, result>>

\* lines 128-131: a getVersionedUri call returns; Promise.all is fulfilled by the second
UriReturns(id) ==
    /\ calls[id] = "inflight"
    /\ LET side == IF id = "uriL" THEN args.lhs ELSE args.rhs IN
       \E v \in VersionedUriResults(args.repoPath, FsPath(side.uri), side.sha) :
          /\ returned' = [returned EXCEPT ![id] = v]
          /\ IF pc = "uris" /\ calls[Other(id)] = "ok"
             THEN OpenDiff(returned'["uriL"], returned'["uriR"], [calls EXCEPT ![id] = "ok"])
             ELSE /\ calls' = [calls EXCEPT ![id] = "ok"]
                  /\ UNCHANGED <<pc, args, lhs, rhs, suffix, title, callArgs>>
    /\ UNCHANGED <<req, lhsSha, rhsSha, logged, notified, result>>

\* lines 128-131: a getVersionedUri call throws; Promise.all is rejected by the first
UriFails(id) ==
    /\ calls[id] = "inflight"
    /\ calls' = [calls EXCEPT ![id] = "failed"]
    /\ IF pc = "uris"
       THEN Catch
       ELSE UNCHANGED <<pc, logged, notified, result>>
    /\ UNCHANGED <<req, args, lhsSha, rhsSha, returned, lhs, rhs, suffix, title, callArgs>>

\* line 184: the diff command returns
ViewerReturns ==
    /\ pc = "viewer"
    /\ calls' = [calls EXCEPT !["viewer"] = "ok"]
    /\ returned' = [returned EXCEPT !["viewer"] = Undef]
    /\ result' = Undef
    /\ pc' = "done"
    /\ UNCHANGED <<req, args, lhsSha, rhsSha, lhs, rhs, suffix, title, callArgs, logged, notified>>

\* line 184: the diff command throws
ViewerFails ==
    /\ pc = "viewer"
    /\ calls' = [calls EXCEPT !["viewer"] = "failed"]
    /\ Catch
    /\ UNCHANGED <<req, args, lhsSha, rhsSha, returned, lhs, rhs, suffix, title, callArgs>>

Next ==
    \/ Execute
    \/ ExecuteFromCommits
    \/ ResolveLReturns
    \/ ResolveRReturns
    \/ ResolveFails
    \/ StatusReturns
    \/ StatusFails
    \/ UriReturns("uriL")
    \/ UriReturns("uriR")
    \/ UriFails("uriL")
    \/ UriFails("uriR")
    \/ ViewerReturns
    \/ ViewerFails

Spec == Init /\ [][Next]_vars

----------------------------------------------------------------------------
(* Properties *)

Lookups == {"resolveL", "resolveR", "status", "uriL", "uriR"}
Settled == {"ok", "failed"}
Incomplete(r) == r.repoPath = Undef \/ ~r.lhs.given \/ ~r.rhs.given
NoOverride == req.lhs.title = Undef /\ req.rhs.title = Undef
\* the labels have been derived
Labelled == suffix.rhs # None
\* the status lookup is over or was skipped: the content lookups have begun
Classified == Len(callArgs["uriL"]) > 0

\* C1: a request without repository, left side or right side is a no-op: execute
\* returns undefined, no collaborator is called, nothing is logged or shown.
C1_IncompleteIsNoOp ==
    (pc # "idle" /\ Incomplete(req)) =>
        /\ pc = "done"
        /\ result = Undef
        /\ \A c \in CallIds : calls[c] = "none" /\ callArgs[c] = <<>>
        /\ notified = 0

\* C2: whenever one of the two resolveReference calls completes, the other one has
\* already been started.
C2_ResolutionConcurrent ==
    [][\A c \in {"resolveL", "resolveR"} :
          (calls[c] = "inflight" /\ calls'[c] \in Settled) =>
              \A d \in {"resolveL", "resolveR"} : calls[d] # "none"]_vars

\* C3: when a lookup fails the viewer is not called, the failure is logged once and one
\* notification is shown; the viewer is called only with every started lookup returned.
C3_AllOrNothing ==
    /\ (\E c \in Lookups : calls[c] = "failed") =>
          /\ calls["viewer"] = "none"
          /\ callArgs["viewer"] = <<>>
          /\ logged = 1
          /\ notified = 1
          /\ result = "showGenericErrorMessage"
    /\ calls["viewer"] # "none" => \A c \in Lookups : calls[c] \in {"none", "ok"}

C3_Witness ==
    /\ pc = "done"
    /\ calls["uriL"] = "ok"
    /\ calls["uriR"] = "failed"
    /\ notified = 1

\* C4: the viewer gets two defined references: the one getVersionedUri returned for the
\* side, or else the placeholder for the missing revision of that side's own path.
C4_ViewerReferences ==
    calls["viewer"] # "none" =>
        /\ Len(callArgs["viewer"]) = 1
        /\ LET v == callArgs["viewer"][1] IN
              /\ v[1] # Undef /\ v[2] # Undef
              /\ v[1] = IF returned["uriL"] # Undef THEN returned["uriL"]
                        ELSE ToRevisionUri(DeletedOrMissingSha, FsPath(req.lhs.uri), req.repoPath)
              /\ v[2] = IF returned["uriR"] # Undef THEN returned["uriR"]
                        ELSE ToRevisionUri(DeletedOrMissingSha, FsPath(req.rhs.uri), req.repoPath)

C4_Witness ==
    /\ calls["viewer"] = "ok"
    /\ returned["uriL"] = Undef
    /\ returned["uriR"] # Undef
    /\ req.lhs.uri # req.rhs.uri

\* C5: when the status lookup reports 'D', the right revision becomes the missing
\* sentinel and the right suffix is "deleted in " and the short form of the revision the
\* right side had before resolution.
C5_DeletedOnRight ==
    returned["status"] = "D" =>
        /\ args.rhs.sha = DeletedOrMissingSha
        /\ Labelled =>
              suffix.rhs = "deleted in " \o ShortenSha(req.rhs.sha, "Working Tree")

C5_Witness ==
    /\ returned["status"] = "D"
    /\ Labelled
    /\ req.rhs.sha = HeadRef

\* C6 as claimed: with the left content absent and the right content present the right
\* suffix is "added in " and the short right revision, whatever the right marker is.
C6_AddedInAlways ==
    (Labelled /\ lhs = Undef /\ rhs # Undef) =>
        suffix.rhs = "added in " \o OrEmpty(ShortenSha(returned["resolveR"], "Working Tree"))

\* C6 as amended: the same, unless the right revision resolved to the empty
\* (working tree) revision, where the right suffix is cleared.
C6_AddedInUnlessWorking ==
    (Labelled /\ lhs = Undef /\ rhs # Undef) =>
        suffix.rhs = IF returned["resolveR"] = ""
                     THEN ""
                     ELSE "added in " \o ShortenSha(returned["resolveR"], "Working Tree")

C6_Witness ==
    /\ Labelled /\ lhs = Undef /\ rhs # Undef
    /\ req.rhs.sha = HeadRef
    /\ req.rhs.title # Undef
    /\ suffix.rhs = "added in 4f2a9c1"

\* C7 as claimed: with the working tree on the right and its content present the right
\* suffix is empty and the title is made of the two bare basenames.
C7_BothBare ==
    (Labelled /\ req.rhs.sha = WorkingSha /\ rhs # Undef /\ NoOverride) =>
        /\ suffix.rhs = ""
        /\ title = Basename(req.lhs.uri) \o " " \o ArrowLeftRightLong \o " "
                      \o Basename(req.rhs.uri)

\* C7 as amended: the right suffix is empty and the right side gives its bare basename;
\* the left side gives its basename, followed by its suffix in parentheses unless that
\* suffix is empty.
C7_RightBare ==
    (Labelled /\ req.rhs.sha = WorkingSha /\ rhs # Undef) =>
        /\ suffix.rhs = ""
        /\ req.rhs.title = Undef => args.rhs.title = Basename(req.rhs.uri)
        /\ NoOverride =>
              title = Basename(req.lhs.uri)
                         \o (IF suffix.lhs = "" THEN "" ELSE " (" \o suffix.lhs \o ")")
                         \o " " \o ArrowLeftRightLong \o " " \o Basename(req.rhs.uri)

C7_Witness ==
    /\ Labelled /\ req.rhs.sha = WorkingSha /\ rhs # Undef /\ NoOverride
    /\ lhs = Undef
    /\ title = "b.ts (not in 4f2a9c1) <-> a.ts"

\* a request getMarkdownCommandArgs built from one commit that has no previous revision
FromRootCommit ==
    req.origin = "commit" /\ req.lhs.sha = DeletedOrMissingSha

\* C8 as claimed: for a commit without previous revision the title has both labels,
\* the left one the bare basename, the right one "<basename> (added in <short sha>)".
C8_TwoSidedTitle ==
    (Labelled /\ FromRootCommit /\ lhs = Undef /\ rhs # Undef) =>
        title = Basename(req.lhs.uri) \o " " \o ArrowLeftRightLong \o " "
                   \o Basename(req.rhs.uri) \o " (added in " \o ShortForm(req.rhs.sha) \o ")"

\* C8 as amended: the title is the right label alone, "<basename> (added in <short
\* sha>)"; the left side gets no label.
C8_RightLabelOnly ==
    (Labelled /\ FromRootCommit /\ lhs = Undef /\ rhs # Undef) =>
        /\ args.lhs.title = Undef
        /\ title = Basename(req.rhs.uri) \o " (added in " \o ShortForm(req.rhs.sha) \o ")"

C8_Witness ==
    /\ Labelled /\ FromRootCommit /\ lhs = Undef /\ rhs # Undef
    /\ calls["viewer"] = "ok"
    /\ req.lhs.uri # req.rhs.uri

\* the right revision resolved to something that is neither empty nor the missing sentinel
RightResolvedConcrete ==
    returned["resolveR"] \notin {None, Undef, "", DeletedOrMissingSha}

\* C9: getFileStatusForCommit is called at most once, for the right path and the right
\* resolved revision, after both resolveReference calls returned, and exactly when that
\* revision is neither empty nor the missing sentinel; no getVersionedUri call is made
\* before it has returned or been skipped.
C9_StatusLookupGated ==
    /\ Len(callArgs["status"]) <= 1
    /\ calls["status"] # "none" =>
          /\ calls["resolveL"] = "ok" /\ calls["resolveR"] = "ok"
          /\ callArgs["status"] =
                <<<<req.repoPath, FsPath(req.rhs.uri), returned["resolveR"]>>>>
    /\ calls["resolveR"] = "ok" => (calls["status"] # "none" <=> RightResolvedConcrete)
    /\ (calls["uriL"] # "none" \/ calls["uriR"] # "none") =>
          \/ calls["status"] = "ok"
          \/ calls["status"] = "none" /\ calls["resolveR"] = "ok" /\ ~RightResolvedConcrete

C9_Witness ==
    /\ calls["status"] = "ok"
    /\ calls["uriR"] = "inflight"
    /\ req.rhs.sha = HeadRef
    /\ req.lhs.uri # req.rhs.uri

\* C10 as claimed: on either side, a revision that did not resolve to the missing
\* sentinel is the one the label is derived from.
C10_ResolvedUsedForLabel ==
    Classified =>
        /\ returned["resolveL"] # DeletedOrMissingSha => lhsSha = returned["resolveL"]
        /\ returned["resolveR"] # DeletedOrMissingSha => rhsSha = returned["resolveR"]

\* C10 as amended: that holds on the left; on the right it holds unless the status
\* lookup reports 'D', where the label is derived from the revision the request gave,
\* as it is on either side when resolution returned the missing sentinel.
C10_ResolvedUsedUnlessDeleted ==
    Classified =>
        /\ returned["resolveL"] # DeletedOrMissingSha => lhsSha = returned["resolveL"]
        /\ returned["resolveL"] = DeletedOrMissingSha => lhsSha = req.lhs.sha
        /\ (returned["resolveR"] # DeletedOrMissingSha /\ returned["status"] # "D") =>
              rhsSha = returned["resolveR"]
        /\ (returned["resolveR"] = DeletedOrMissingSha \/ returned["status"] = "D") =>
              rhsSha = req.rhs.sha

C10_Witness ==
    /\ Labelled
    /\ req.lhs.sha = HeadRef /\ returned["resolveL"] = ShaB /\ lhs = Undef
    /\ req.rhs.sha = HeadRef /\ returned["resolveR"] = ShaA /\ returned["status"] = "D"

====
